---- MODULE Spec2Model ----
(***************************************************************************)
(* A model of the DOM-behaviour actions of the repository:                 *)
(*   clickOutside  (src/unnamed/part_002)                                  *)
(*   longpress     (src/src/lib/actions/longpress.svelte.ts)               *)
(*   tooltip       (src/unnamed/part_003)                                  *)
(* of its time formatter:                                                  *)
(*   formatTime    (src/unnamed/part_004)                                  *)
(* and of its movie list component:                                        *)
(*   AnimatedGallery (src/src/lib/components/AnimatedGallery.svelte)       *)
(* Each action is a closure attached to one element; the closure's local   *)
(* variables are modelled as functions indexed by the attachment.          *)
(***************************************************************************)
EXTENDS Integers, Sequences, FiniteSets, TLC

VARIABLES
    \* ---- clickOutside ----
    coStatus,       \* attachment -> "unattached" | "attached" | "destroyed"
    coNode,         \* attachment -> the element `node` of the closure
    docListeners,   \* the document's event listener list, in registration order
    nEvents,        \* number of pointerdown events dispatched so far
    coLastEvent,    \* the last pointerdown event dispatched in the document
    coDispatched,   \* the CustomEvents dispatched while handling coLastEvent
    coTrace,        \* the listeners run for coLastEvent, in the order they ran
    coDestroys,     \* attachment -> destroy() calls made on its handle (2 = two or more)
    \* ---- longpress ----
    lpStatus,       \* attachment -> "unattached" | "attached" | "destroyed"
    lpMs,           \* attachment -> the closure's `ms`
    lpTimer,        \* attachment -> the closure's `timer` (NoTimer = null)
    lpUserSelect,   \* attachment -> node.style.userSelect
    lpListeners,    \* attachment -> the listener list of its element
    timers,         \* the timeouts pending in the window
    nextTimerId,    \* the id window.setTimeout returns next
    lpHeld,         \* attachment -> the press held on its element, if any
    lpConfig,       \* attachment -> the params last given to attach or update
    lpLog,          \* the 'longpress' CustomEvents dispatched so far
    lpDestroys,     \* attachment -> destroy() calls made on its handle (2 = two or more)
    \* ---- tooltip ----
    tipStatus,      \* attachment -> "unattached" | "attached" | "failed" (attach threw)
    tipInstance,    \* attachment -> the closure's `instance` (NoInstance = null)
    tippyInstances, \* the instances tippy() has created, by id
    tipCalls,       \* the calls the last operation made to the tippy library
    tipConfig,      \* attachment -> the params last given to attach or update
    tipDestroys,    \* attachment -> teardown calls made on its handle (2 = two or more)
    \* ---- formatTime ----
    fmtSeconds,     \* the argument `seconds` of the call
    fmtResult,      \* the string the call returned (NoResult before the call)
    \* ---- AnimatedGallery ----
    movies,         \* the component's `movies`, a sequence of movie records
    newTitle,       \* the component's `newTitle`, a sequence of characters
    uuids,          \* the number of ids crypto.randomUUID() has returned
    \* ---- bookkeeping ----
    lastOp          \* the operation performed by the last step

coVars == <<coStatus, coNode, docListeners, nEvents, coLastEvent, coDispatched,
           coTrace, coDestroys>>
lpVars == <<lpStatus, lpMs, lpTimer, lpUserSelect, lpListeners, timers,
           nextTimerId, lpHeld, lpConfig, lpLog, lpDestroys>>
tipVars == <<tipStatus, tipInstance, tippyInstances, tipCalls, tipConfig,
            tipDestroys>>
fmtVars == <<fmtSeconds, fmtResult>>
galVars == <<movies, newTitle, uuids>>
vars == <<coVars, lpVars, tipVars, fmtVars, galVars, lastOp>>

-----------------------------------------------------------------------------
(* Bounds *)

\* pointerdown events dispatched in the document in one behaviour
MaxEvents == 3
\* timeouts set in one behaviour (every pointerdown handled sets one)
MaxTimers == 2
\* tooltip instances tippy() creates in one behaviour
MaxInstances == 3
\* the largest whole number of seconds given to formatTime
MaxSeconds == 3661
\* the largest whole number of seconds below zero given to formatTime
MaxNegative == 70
\* movies added to the gallery in one behaviour
MaxAdds == 1

-----------------------------------------------------------------------------
(* The DOM the actions are attached to *)

\* document > body > { menu > item, panel > btn }
Nodes == {"document", "body", "menu", "item", "panel", "btn"}

Parent(n) ==
    CASE n = "body"  -> "document"
      [] n = "menu"  -> "body"
      [] n = "item"  -> "menu"
      [] n = "panel" -> "body"
      [] n = "btn"   -> "panel"
      [] OTHER       -> "window"

RECURSIVE composedPath(_)
\* Event.composedPath(): the target, its ancestors, the document, the window
composedPath(n) ==
    IF n = "window" THEN <<"window">> ELSE <<n>> \o composedPath(Parent(n))

\* Array.prototype.includes
includes(path, n) == \E i \in 1..Len(path) : path[i] = n

\* EventTarget.addEventListener: appends, unless the same (type, callback,
\* capture) is already registered
addEventListener(list, l) ==
    IF \E i \in 1..Len(list) : list[i] = l THEN list ELSE Append(list, l)

removeEventListener_byType(list, l) ==
    SelectSeq(list, LAMBDA x : ~(x.type = l.type /\ x.capture = l.capture))

\* EventTarget.removeEventListener: removes the matching entry; removing a
\* listener that is not registered does nothing
removeEventListener(list, l) == SelectSeq(list, LAMBDA x : x # l)

-----------------------------------------------------------------------------
(* clickOutside *)

CoIds == {"co1", "co2"}
\* elements the host attaches clickOutside to
CoAttachNodes == {"menu", "item", "panel"}

NoEvent == [id |-> 0, target |-> "document", stopAt |-> "none"]

CoListener_bubble(a) == [type |-> "pointerdown", callback |-> a, capture |-> FALSE]

\* the listener entry document.addEventListener('pointerdown', onPointerDown, true)
\* makes for the closure of attachment a
CoListener(a) == [type |-> "pointerdown", callback |-> a, capture |-> TRUE]

onPointerDown_onDocument(a, e) ==
    IF ~includes(composedPath(e.target), coNode[a])
    THEN << [type |-> "clickoutside", on |-> "document", by |-> a,
             originalEvent |-> e] >>
    ELSE << >>

\* onPointerDown(e) of attachment a: the CustomEvents it dispatches
onPointerDown_targetOnly(a, e) ==
    IF e.target # coNode[a]
    THEN << [type |-> "clickoutside", on |-> coNode[a], by |-> a,
             originalEvent |-> e] >>
    ELSE << >>

onPointerDown(a, e) ==
    IF ~includes(composedPath(e.target), coNode[a])
    THEN << [type |-> "clickoutside", on |-> coNode[a], by |-> a,
             originalEvent |-> e] >>
    ELSE << >>

\* the document's pointerdown listeners of one phase (capture or not), in
\* registration order
PhaseListeners(list, capture) ==
    SelectSeq(list, LAMBDA l : l.type = "pointerdown" /\ l.capture = capture)

RECURSIVE RunListeners(_, _)
\* the CustomEvents the given listeners dispatch when they run for e
RunListeners(list, e) ==
    IF list = << >> THEN << >>
    ELSE onPointerDown(Head(list).callback, e) \o RunListeners(Tail(list), e)

\* the listeners run for e, in order: the document's capture listeners on the
\* way down; on the way up either the bubble listener at e.stopAt, which calls
\* stopPropagation(), or, when nothing stops the event, the document's
\* bubble listeners
Dispatch(list, e) ==
    LET down == PhaseListeners(list, TRUE)
        up   == IF e.stopAt = "none" THEN PhaseListeners(list, FALSE) ELSE << >>
    IN  [events |-> RunListeners(down, e) \o RunListeners(up, e),
         trace  |->
            [i \in 1..Len(down) |->
                [phase |-> "capture", at |-> "document", by |-> down[i].callback]]
            \o (IF e.stopAt = "none" THEN << >>
                ELSE << [phase |-> "bubble", at |-> e.stopAt, by |-> "page"] >>)
            \o [i \in 1..Len(up) |->
                [phase |-> "bubble", at |-> "document", by |-> up[i].callback]]]

\* the nodes below the document on the path of a pointerdown on t; one of them
\* may carry a bubble listener that stops the propagation
Stoppers(t) ==
    {"none"} \cup {n \in Nodes \ {"document"} : includes(composedPath(t), n)}

\* what no clickOutside operation touches
CoFrame == UNCHANGED <<lpVars, tipVars, fmtVars, galVars>>

\* clickOutside(node): the action is attached to an element
clickOutside(a, node) ==
    /\ coStatus[a] = "unattached"
    /\ coStatus' = [coStatus EXCEPT ![a] = "attached"]
    /\ coNode' = [coNode EXCEPT ![a] = node]
    /\ docListeners' = addEventListener(docListeners, CoListener(a))
    /\ lastOp' = [kind |-> "clickOutside", a |-> a, thrown |-> "none"]
    /\ UNCHANGED <<nEvents, coLastEvent, coDispatched, coTrace, coDestroys>>
    /\ CoFrame

\* the listener entry destroy() removes
CoRemoved_bubble(a) == [type |-> "pointerdown", callback |-> a, capture |-> FALSE]

CoRemoved(a) == [type |-> "pointerdown", callback |-> a, capture |-> TRUE]

clickOutside_destroy_all(a) ==
    /\ coStatus[a] \in {"attached", "destroyed"}
    /\ coStatus' = [coStatus EXCEPT ![a] = "destroyed"]
    /\ docListeners' = << >>
    /\ lastOp' = [kind |-> "clickOutside_destroy", a |-> a, thrown |-> "none"]
    /\ coDestroys' = [coDestroys EXCEPT ![a] = IF @ = 0 THEN 1 ELSE 2]
    /\ UNCHANGED <<coNode, nEvents, coLastEvent, coDispatched, coTrace>>
    /\ CoFrame

\* the handle's destroy(); callable any number of times
clickOutside_destroy(a) ==
    /\ coStatus[a] \in {"attached", "destroyed"}
    /\ coStatus' = [coStatus EXCEPT ![a] = "destroyed"]
    /\ docListeners' = removeEventListener(docListeners, CoRemoved(a))
    /\ lastOp' = [kind |-> "clickOutside_destroy", a |-> a, thrown |-> "none"]
    /\ coDestroys' = [coDestroys EXCEPT ![a] = IF @ = 0 THEN 1 ELSE 2]
    /\ UNCHANGED <<coNode, nEvents, coLastEvent, coDispatched, coTrace>>
    /\ CoFrame

\* a pointerdown is dispatched on target t of the document; s is the node
\* whose bubble listener stops the propagation, if any
DocPointerDown(t, s) ==
    /\ nEvents < MaxEvents
    /\ LET e == [id |-> nEvents + 1, target |-> t, stopAt |-> s] IN
        /\ nEvents' = nEvents + 1
        /\ coLastEvent' = e
        /\ coDispatched' = Dispatch(docListeners, e).events
        /\ coTrace' = Dispatch(docListeners, e).trace
    /\ lastOp' = [kind |-> "pointerdown", a |-> "document", thrown |-> "none"]
    /\ UNCHANGED <<coStatus, coNode, docListeners, coDestroys>>
    /\ CoFrame

CoNext ==
    \/ \E a \in CoIds, n \in CoAttachNodes : clickOutside(a, n)
    \/ \E a \in CoIds : clickOutside_destroy(a)
    \/ \E t \in Nodes : \E s \in Stoppers(t) : DocPointerDown(t, s)


-----------------------------------------------------------------------------
(* longpress *)

LpIds == {"lp1", "lp2"}
PointerTypes == {"mouse", "touch"}

\* `ms` when the params give none
DefaultMs == 600
\* the value of `timer` when no timeout is pending (null)
NoTimer == 0

\* the params a host passes: none (or without ms), or with an ms
MsInputs == {-1, 0, 300}
LongpressParams ==
    {[hasMs |-> FALSE, ms |-> 0]} \cup {[hasMs |-> TRUE, ms |-> n] : n \in MsInputs}

\* params?.ms ?? 600
MsOf_keep(a, p) == IF p.hasMs THEN p.ms ELSE lpMs[a]

MsOf(a, p) == IF p.hasMs THEN p.ms ELSE DefaultMs

\* how far the clock moves in one step, besides to the next expiry
Steps == {300}

\* the four listeners registered at attach, in registration order
LpRegistered ==
    << [type |-> "pointerdown",   callback |-> "start"],
       [type |-> "pointerup",     callback |-> "stop"],
       [type |-> "pointercancel", callback |-> "stop"],
       [type |-> "pointerleave",  callback |-> "stop"] >>

RECURSIVE AddAll(_, _)
AddAll(list, ls) ==
    IF ls = << >> THEN list
    ELSE AddAll(addEventListener(list, Head(ls)), Tail(ls))

\* the callbacks the element runs for an event of the given type
Handlers(a, type) ==
    {lpListeners[a][i].callback :
        i \in {j \in 1..Len(lpListeners[a]) : lpListeners[a][j].type = type}}

clearTimeout_none(ts, id) == ts

clearTimeout_all(ts, id) == {}

\* window.clearTimeout(id)
clearTimeout(ts, id) == {t \in ts : t.id # id}

\* clear(): the pending timeouts after `if (timer !== null) clearTimeout(timer)`
clear_keepTimeout(a, ts) == ts

clear(a, ts) == IF lpTimer[a] # NoTimer THEN clearTimeout(ts, lpTimer[a]) ELSE ts

Timeout_resume(a, pt, ms) ==
    [id |-> nextTimerId, owner |-> a, pointerType |-> pt, delay |-> ms,
     remaining |-> IF ms - lpHeld[a].prev < 0 THEN 0 ELSE ms - lpHeld[a].prev]

Timeout_firstKind(a, pt, ms) ==
    [id |-> nextTimerId, owner |-> a,
     pointerType |-> IF lpHeld[a].press # 0 THEN lpHeld[a].pointerType ELSE pt,
     delay |-> ms, remaining |-> IF ms < 0 THEN 0 ELSE ms]

\* window.setTimeout(cb, ms): a delay below 0 counts as 0
Timeout(a, pt, ms) ==
    [id |-> nextTimerId, owner |-> a, pointerType |-> pt, delay |-> ms,
     remaining |-> IF ms < 0 THEN 0 ELSE ms]

\* what no longpress operation touches
LpFrame == UNCHANGED <<coVars, tipVars, fmtVars, galVars>>

\* longpress(node, params): the action is attached to an element
longpress(a, p) ==
    /\ lpStatus[a] = "unattached"
    /\ lpStatus' = [lpStatus EXCEPT ![a] = "attached"]
    /\ lpTimer' = [lpTimer EXCEPT ![a] = NoTimer]
    /\ lpMs' = [lpMs EXCEPT ![a] = MsOf(a, p)]
    /\ lpListeners' = [lpListeners EXCEPT ![a] = AddAll(@, LpRegistered)]
    /\ lpConfig' = [lpConfig EXCEPT ![a] = p]
    /\ lastOp' = [kind |-> "longpress", a |-> a, thrown |-> "none"]
    /\ UNCHANGED <<lpUserSelect, timers, nextTimerId, lpHeld, lpLog, lpDestroys>>
    /\ LpFrame

start_keepSelect(a, pt) ==
    /\ timers' = clear(a, timers) \cup {Timeout(a, pt, lpMs[a])}
    /\ lpTimer' = [lpTimer EXCEPT ![a] = nextTimerId]
    /\ nextTimerId' = nextTimerId + 1
    /\ UNCHANGED lpUserSelect

start_noClear(a, pt) ==
    /\ lpUserSelect' = [lpUserSelect EXCEPT ![a] = "none"]
    /\ timers' = timers \cup {Timeout(a, pt, lpMs[a])}
    /\ lpTimer' = [lpTimer EXCEPT ![a] = nextTimerId]
    /\ nextTimerId' = nextTimerId + 1

start_clamped(a, pt) ==
    /\ lpUserSelect' = [lpUserSelect EXCEPT ![a] = "none"]
    /\ timers' = clear(a, timers)
                    \cup {Timeout(a, pt, IF lpMs[a] < 1 THEN 1 ELSE lpMs[a])}
    /\ lpTimer' = [lpTimer EXCEPT ![a] = nextTimerId]
    /\ nextTimerId' = nextTimerId + 1

\* start(e): the pointerdown listener
start(a, pt) ==
    /\ lpUserSelect' = [lpUserSelect EXCEPT ![a] = "none"]
    /\ timers' = clear(a, timers) \cup {Timeout(a, pt, lpMs[a])}
    /\ lpTimer' = [lpTimer EXCEPT ![a] = nextTimerId]
    /\ nextTimerId' = nextTimerId + 1

stop_keepTimer(a) ==
    /\ lpUserSelect' = [lpUserSelect EXCEPT ![a] = ""]
    /\ UNCHANGED <<timers, lpTimer, nextTimerId>>

stop_onlyIfPending(a) ==
    /\ lpUserSelect' = [lpUserSelect EXCEPT ![a] =
                            IF lpTimer[a] # NoTimer THEN "" ELSE @]
    /\ timers' = clear(a, timers)
    /\ lpTimer' = [lpTimer EXCEPT ![a] = NoTimer]
    /\ UNCHANGED nextTimerId

\* stop(): the pointerup, pointercancel and pointerleave listener
stop(a) ==
    /\ lpUserSelect' = [lpUserSelect EXCEPT ![a] = ""]
    /\ timers' = clear(a, timers)
    /\ lpTimer' = [lpTimer EXCEPT ![a] = NoTimer]
    /\ UNCHANGED nextTimerId

\* no press is held on an element
NoPress == [press |-> 0, pointerType |-> "none", ms |-> 0, since |-> 0,
            prev |-> 0, prevBy |-> "none", prevType |-> "none"]

\* the record of the press that replaces h: press is the id of the timeout set
\* for it (0 when none was set), ms the closure's `ms` at the pointerdown,
\* since the time passed since it, prev and prevBy how long the press before
\* it had been held and what ended it, prevType the pointer type of the press
\* before it when a pointerdown took its place
NextPress(h, press, pt, ms, by) ==
    [press |-> press, pointerType |-> pt, ms |-> ms, since |-> 0,
     prev |-> IF h.press # 0 THEN h.since ELSE h.prev,
     prevBy |-> IF h.press # 0 THEN by ELSE h.prevBy,
     prevType |-> IF h.press = 0 THEN h.prevType
                  ELSE IF by = "down" THEN h.pointerType ELSE "none"]

\* a pointerdown of pointer type pt arrives on the element of a
PointerDown(a, pt) ==
    /\ nextTimerId <= MaxTimers
    /\ IF "start" \in Handlers(a, "pointerdown")
       THEN /\ start(a, pt)
            /\ lpHeld' = [lpHeld EXCEPT ![a] =
                            NextPress(@, nextTimerId, pt, lpMs[a], "down")]
       ELSE /\ UNCHANGED <<lpUserSelect, timers, lpTimer, nextTimerId>>
            /\ lpHeld' = [lpHeld EXCEPT ![a] = NextPress(@, 0, pt, 0, "down")]
    /\ lastOp' = [kind |-> "pointerdown", a |-> a, thrown |-> "none"]
    /\ UNCHANGED <<lpStatus, lpMs, lpListeners, lpConfig, lpLog, lpDestroys>>
    /\ LpFrame

\* a pointerup, pointercancel or pointerleave arrives on the element of a
PointerEnd(a, type) ==
    /\ IF "stop" \in Handlers(a, type)
       THEN stop(a)
       ELSE UNCHANGED <<lpUserSelect, timers, lpTimer, nextTimerId>>
    /\ lpHeld' = [lpHeld EXCEPT ![a] = NextPress(@, 0, "none", 0, "end")]
    /\ lastOp' = [kind |-> type, a |-> a, thrown |-> "none"]
    /\ UNCHANGED <<lpStatus, lpMs, lpListeners, lpConfig, lpLog, lpDestroys>>
    /\ LpFrame

\* the clock moves on by d, not beyond the next expiry
Advance(d) ==
    /\ timers # {}
    /\ d >= 1
    /\ \A t \in timers : d <= t.remaining
    /\ timers' = {[t EXCEPT !.remaining = @ - d] : t \in timers}
    /\ lpHeld' = [a \in LpIds |->
                    IF lpHeld[a].press # 0 /\ \E t \in timers : t.owner = a
                    THEN [lpHeld[a] EXCEPT !.since = @ + d]
                    ELSE lpHeld[a]]
    /\ lastOp' = [kind |-> "advance", a |-> "window", thrown |-> "none"]
    /\ UNCHANGED <<lpStatus, lpMs, lpTimer, lpUserSelect, lpListeners,
                   nextTimerId, lpConfig, lpLog, lpDestroys>>
    /\ LpFrame

TimerCallback_restore(t) ==
    /\ t \in timers
    /\ t.remaining = 0
    /\ lpLog' = Append(lpLog, [type |-> "longpress", by |-> t.owner,
                               timer |-> t.id, pointerType |-> t.pointerType])
    /\ timers' = clear(t.owner, timers \ {t})
    /\ lpTimer' = [lpTimer EXCEPT ![t.owner] = NoTimer]
    /\ lpUserSelect' = [lpUserSelect EXCEPT ![t.owner] = ""]
    /\ lastOp' = [kind |-> "timeout", a |-> t.owner, thrown |-> "none"]
    /\ UNCHANGED <<lpStatus, lpMs, lpListeners, nextTimerId,
                   lpHeld, lpConfig, lpDestroys>>
    /\ LpFrame

\* the callback given to setTimeout runs: dispatches 'longpress', then clear()
TimerCallback(t) ==
    /\ t \in timers
    /\ t.remaining = 0
    /\ lpLog' = Append(lpLog, [type |-> "longpress", by |-> t.owner,
                               timer |-> t.id, pointerType |-> t.pointerType])
    /\ timers' = clear(t.owner, timers \ {t})
    /\ lpTimer' = [lpTimer EXCEPT ![t.owner] = NoTimer]
    /\ lastOp' = [kind |-> "timeout", a |-> t.owner, thrown |-> "none"]
    /\ UNCHANGED <<lpStatus, lpMs, lpUserSelect, lpListeners, nextTimerId,
                   lpHeld, lpConfig, lpDestroys>>
    /\ LpFrame

longpress_update_restart(a, p) ==
    /\ lpStatus[a] \in {"attached", "destroyed"}
    /\ lpMs' = [lpMs EXCEPT ![a] = MsOf(a, p)]
    /\ timers' = {IF t.owner = a
                  THEN [t EXCEPT !.delay = MsOf(a, p),
                                 !.remaining = IF MsOf(a, p) < 0 THEN 0 ELSE MsOf(a, p)]
                  ELSE t : t \in timers}
    /\ lpConfig' = [lpConfig EXCEPT ![a] = p]
    /\ lastOp' = [kind |-> "longpress_update", a |-> a, thrown |-> "none"]
    /\ UNCHANGED <<lpStatus, lpTimer, lpUserSelect, lpListeners,
                   nextTimerId, lpHeld, lpLog, lpDestroys>>
    /\ LpFrame

\* the handle's update(next)
longpress_update(a, p) ==
    /\ lpStatus[a] \in {"attached", "destroyed"}
    /\ lpMs' = [lpMs EXCEPT ![a] = MsOf(a, p)]
    /\ lpConfig' = [lpConfig EXCEPT ![a] = p]
    /\ lastOp' = [kind |-> "longpress_update", a |-> a, thrown |-> "none"]
    /\ UNCHANGED <<lpStatus, lpTimer, lpUserSelect, lpListeners, timers,
                   nextTimerId, lpHeld, lpLog, lpDestroys>>
    /\ LpFrame

\* the handle's destroy(): four addEventListener calls
longpress_destroy(a) ==
    /\ lpStatus[a] \in {"attached", "destroyed"}
    /\ lpStatus' = [lpStatus EXCEPT ![a] = "destroyed"]
    /\ lpListeners' = [lpListeners EXCEPT ![a] = AddAll(@, LpRegistered)]
    /\ lpDestroys' = [lpDestroys EXCEPT ![a] = IF @ = 0 THEN 1 ELSE 2]
    /\ lastOp' = [kind |-> "longpress_destroy", a |-> a, thrown |-> "none"]
    /\ UNCHANGED <<lpMs, lpTimer, lpUserSelect, timers, nextTimerId, lpHeld,
                   lpConfig, lpLog>>
    /\ LpFrame

\* the operations on the attachments in S, with params from P, pointer types
\* from PT and interrupting events from E
LpOps(S, P, PT, E) ==
    \/ \E a \in S, p \in P : longpress(a, p)
    \/ \E a \in S, pt \in PT : PointerDown(a, pt)
    \/ \E a \in S, type \in E : PointerEnd(a, type)
    \/ \E d \in Steps \cup {t.remaining : t \in timers} : Advance(d)
    \/ \E t \in timers : TimerCallback(t)
    \/ \E a \in S, p \in P : longpress_update(a, p)
    \/ \E a \in S : longpress_destroy(a)

\* the operations on the attachments in S
LpNext(S) ==
    LpOps(S, LongpressParams, PointerTypes,
          {"pointerup", "pointercancel", "pointerleave"})


-----------------------------------------------------------------------------
(* tooltip *)

TipIds == {"tip1", "tip2"}

\* the value of `instance` when there is none (null)
NoInstance == 0

TooltipParams ==
    [content : {"A", "B"}, hasPlacement : {FALSE}, placement : {"top"}]
    \cup [content : {"A", "B"}, hasPlacement : {TRUE}, placement : {"bottom"}]

NoParams == [content |-> "", hasPlacement |-> FALSE, placement |-> "top"]

\* the properties of the object the action returns
TooltipHandle == {"update", "destory"}

PlacementOf_keep(p) ==
    IF p.hasPlacement THEN p.placement
    ELSE IF tippyInstances # << >>
         THEN tippyInstances[Len(tippyInstances)].placement
         ELSE "top"

\* p.placement ?? 'top'
PlacementOf(p) == IF p.hasPlacement THEN p.placement ELSE "top"

\* Instance.destroy() of tippy.js: a destroyed instance stays destroyed
InstanceDestroy(insts, id) ==
    [insts EXCEPT ![id] = [@ EXCEPT !.destroyed = TRUE,
                                    !.destroyCalls = IF @ = 0 THEN 1 ELSE 2]]

\* instance?.destroy(): the library's instances afterwards, and the call made
OptDestroy(a) ==
    IF tipInstance[a] # NoInstance
    THEN [insts |-> InstanceDestroy(tippyInstances, tipInstance[a]),
          calls |-> << [call |-> "destroy", id |-> tipInstance[a]] >>]
    ELSE [insts |-> tippyInstances, calls |-> << >>]

\* what no tooltip operation touches
TipFrame == UNCHANGED <<coVars, lpVars, fmtVars, galVars>>

\* the state before setup's tippy() call
SetupDestroyed_skip(a) == [insts |-> tippyInstances, calls |-> << >>]

SetupDestroyed(a) == OptDestroy(a)

setup_forget(a, p, ok) ==
    LET d == SetupDestroyed(a)
        id == Len(tippyInstances) + 1
    IN  /\ tippyInstances' = IF ok
            THEN Append(d.insts,
                    [owner |-> a, content |-> p.content,
                     placement |-> PlacementOf(p), destroyed |-> FALSE,
                     destroyCalls |-> 0])
            ELSE d.insts
        /\ tipInstance' = [tipInstance EXCEPT ![a] = IF ok THEN id ELSE NoInstance]
        /\ tipCalls' = d.calls \o
                << [call |-> "tippy", id |-> IF ok THEN id ELSE NoInstance] >>

\* setup(p); ok: whether the tippy() call returns (it may throw)
setup(a, p, ok) ==
    LET d == SetupDestroyed(a)
        id == Len(tippyInstances) + 1
    IN  IF ok
        THEN /\ tippyInstances' = Append(d.insts,
                    [owner |-> a, content |-> p.content,
                     placement |-> PlacementOf(p), destroyed |-> FALSE,
                     destroyCalls |-> 0])
             /\ tipInstance' = [tipInstance EXCEPT ![a] = id]
             /\ tipCalls' = d.calls \o << [call |-> "tippy", id |-> id] >>
        ELSE /\ tippyInstances' = d.insts
             /\ UNCHANGED tipInstance
             /\ tipCalls' = d.calls \o << [call |-> "tippy", id |-> NoInstance] >>

tooltip_caught(a, p, ok) ==
    /\ tipStatus[a] = "unattached"
    /\ Len(tippyInstances) < MaxInstances
    /\ setup(a, p, ok)
    /\ tipStatus' = [tipStatus EXCEPT ![a] = "attached"]
    /\ tipConfig' = [tipConfig EXCEPT ![a] = p]
    /\ lastOp' = [kind |-> "tooltip", a |-> a, thrown |-> "none"]
    /\ UNCHANGED tipDestroys
    /\ TipFrame

\* tooltip(node, params): the action is attached to an element; when tippy()
\* throws, the exception leaves the action and no handle is returned
tooltip(a, p, ok) ==
    /\ tipStatus[a] = "unattached"
    /\ Len(tippyInstances) < MaxInstances
    /\ setup(a, p, ok)
    /\ tipStatus' = [tipStatus EXCEPT ![a] = IF ok THEN "attached" ELSE "failed"]
    /\ tipConfig' = [tipConfig EXCEPT ![a] = p]
    /\ lastOp' = [kind |-> "tooltip", a |-> a,
                  thrown |-> IF ok THEN "none" ELSE "Error"]
    /\ UNCHANGED tipDestroys
    /\ TipFrame

tooltip_update_guarded(a, p, ok) ==
    /\ tipStatus[a] = "attached"
    /\ Len(tippyInstances) < MaxInstances
    /\ IF tipDestroys[a] = 0
       THEN setup(a, p, ok)
       ELSE /\ tipCalls' = << >>
            /\ UNCHANGED <<tippyInstances, tipInstance>>
    /\ tipConfig' = [tipConfig EXCEPT ![a] = p]
    /\ lastOp' = [kind |-> "tooltip_update", a |-> a,
                  thrown |-> IF ok \/ tipDestroys[a] # 0 THEN "none" ELSE "Error"]
    /\ UNCHANGED <<tipStatus, tipDestroys>>
    /\ TipFrame

\* the handle's update(next)
tooltip_update(a, p, ok) ==
    /\ tipStatus[a] = "attached"
    /\ Len(tippyInstances) < MaxInstances
    /\ setup(a, p, ok)
    /\ tipConfig' = [tipConfig EXCEPT ![a] = p]
    /\ lastOp' = [kind |-> "tooltip_update", a |-> a,
                  thrown |-> IF ok THEN "none" ELSE "Error"]
    /\ UNCHANGED <<tipStatus, tipDestroys>>
    /\ TipFrame

\* the handle's destory(): instance?.destroy()
destory(a) ==
    /\ tippyInstances' = OptDestroy(a).insts
    /\ tipCalls' = OptDestroy(a).calls
    /\ UNCHANGED tipInstance

\* a caller invokes the handle's method under the name it has
tooltip_destory(a) ==
    /\ tipStatus[a] = "attached"
    /\ destory(a)
    /\ tipDestroys' = [tipDestroys EXCEPT ![a] = IF @ = 0 THEN 1 ELSE 2]
    /\ lastOp' = [kind |-> "tooltip_destory", a |-> a, thrown |-> "none"]
    /\ UNCHANGED <<tipStatus, tipConfig>>
    /\ TipFrame

\* the host tears the attachment down through the action contract's
\* destroy: handle.destroy?.() when optional, handle.destroy() otherwise
CallDestroy(a, optional) ==
    /\ tipStatus[a] = "attached"
    /\ IF "destroy" \in TooltipHandle
       THEN /\ destory(a)
            /\ lastOp' = [kind |-> "destroy", a |-> a, thrown |-> "none"]
       ELSE /\ UNCHANGED <<tippyInstances, tipInstance>>
            /\ tipCalls' = << >>
            /\ lastOp' = [kind |-> "destroy", a |-> a,
                          thrown |-> IF optional THEN "none" ELSE "TypeError"]
    /\ tipDestroys' = [tipDestroys EXCEPT ![a] = IF @ = 0 THEN 1 ELSE 2]
    /\ UNCHANGED <<tipStatus, tipConfig>>
    /\ TipFrame

\* the operations on the attachments in S, with params from P
TipOps(S, P) ==
    \/ \E a \in S, p \in P, ok \in BOOLEAN : tooltip(a, p, ok)
    \/ \E a \in S, p \in P, ok \in BOOLEAN : tooltip_update(a, p, ok)
    \/ \E a \in S : tooltip_destory(a)
    \/ \E a \in S, optional \in BOOLEAN : CallDestroy(a, optional)

\* the operations on the attachments in S
TipNext(S) == TipOps(S, TooltipParams)

-----------------------------------------------------------------------------
(* formatTime *)

\* a JavaScript number: a finite value, kept in tenths, or NaN or an infinity
Num(t) == [kind |-> "finite", tenths |-> t]
NaN == [kind |-> "nan", tenths |-> 0]
PosInfinity == [kind |-> "inf", tenths |-> 0]
NegInfinity == [kind |-> "-inf", tenths |-> 0]

\* the arguments formatTime is called with
FormatInputs ==
    {Num(t) : t \in (0 - 10 * MaxNegative)..(10 * MaxSeconds + 9)}
        \cup {NaN, PosInfinity, NegInfinity}

\* no call has returned yet
NoResult == << >>

NumberIsFinite_notNaN(x) == x.kind # "nan"

\* Number.isFinite(x)
NumberIsFinite(x) == x.kind = "finite"

\* x < 0
LessThanZero(x) ==
    \/ x.kind = "-inf"
    \/ x.kind = "finite" /\ x.tenths < 0

\* Math.floor(x / 60)
FloorDiv60(x) ==
    IF x.kind = "finite" THEN Num(10 * (x.tenths \div 600)) ELSE x

\* the remainder x % 60 of JavaScript, in tenths: it has the sign of x
Rem60(t) == IF t < 0 THEN 0 - ((0 - t) % 600) ELSE t % 600

\* Math.floor(x % 60)
FloorMod60(x) ==
    IF x.kind = "finite" THEN Num(10 * (Rem60(x.tenths) \div 10)) ELSE NaN

\* the characters of the decimal digits
DigitChars == <<"0", "1", "2", "3", "4", "5", "6", "7", "8", "9">>

RECURSIVE NatToString(_)
NatToString(n) ==
    IF n < 10 THEN <<DigitChars[n + 1]>>
    ELSE NatToString(n \div 10) \o <<DigitChars[(n % 10) + 1]>>

\* Number.prototype.toString() and template interpolation, of a whole number
\* or a non-finite one
NumberToString(x) ==
    CASE x.kind = "nan"  -> <<"N", "a", "N">>
      [] x.kind = "inf"  -> <<"I", "n", "f", "i", "n", "i", "t", "y">>
      [] x.kind = "-inf" -> <<"-", "I", "n", "f", "i", "n", "i", "t", "y">>
      [] OTHER ->
            IF x.tenths < 0
            THEN <<"-">> \o NatToString((0 - x.tenths) \div 10)
            ELSE NatToString(x.tenths \div 10)

padStart_none(str, n, c) == str

RECURSIVE padStart(_, _, _)
\* String.prototype.padStart(n, c)
padStart(str, n, c) ==
    IF Len(str) >= n THEN str ELSE padStart(<<c>> \o str, n, c)

\* formatTime(seconds): the characters of the string returned
formatTime(seconds) ==
    IF ~NumberIsFinite(seconds) \/ LessThanZero(seconds)
    THEN <<"0", ":", "0", "0">>
    ELSE LET mins == FloorDiv60(seconds)
             secs == FloorMod60(seconds)
         IN  NumberToString(mins) \o <<":">> \o padStart(NumberToString(secs), 2, "0")

\* what the call touches nothing of
FmtFrame == UNCHANGED <<coVars, lpVars, tipVars, galVars>>

\* a caller calls formatTime(fmtSeconds)
CallFormatTime ==
    /\ fmtResult = NoResult
    /\ fmtResult' = formatTime(fmtSeconds)
    /\ lastOp' = [kind |-> "formatTime", a |-> "none", thrown |-> "none"]
    /\ UNCHANGED fmtSeconds
    /\ FmtFrame

FmtNext == CallFormatTime

-----------------------------------------------------------------------------
(* Properties of formatTime *)

IsDigit(c) == \E d \in 0..9 : DigitChars[d + 1] = c

DigitValue(c) == CHOOSE d \in 0..9 : DigitChars[d + 1] = c

RECURSIVE ParseNat(_)
\* the number a sequence of decimal digits stands for
ParseNat(str) ==
    IF str = << >> THEN 0
    ELSE 10 * ParseNat(SubSeq(str, 1, Len(str) - 1)) + DigitValue(str[Len(str)])

\* C26: for every finite non-negative number of seconds s the result is
\* floor(s/60), a colon, then floor(s mod 60) left-padded with '0' to two
\* digits; minutes never roll over into hours (0 gives '0:00', 30 '0:30',
\* 90 '1:30', 3661 '61:01') and the seconds field is between 00 and 59.
C26_MinutesColonSeconds ==
    (fmtResult # NoResult /\ fmtSeconds.kind = "finite" /\ fmtSeconds.tenths >= 0) =>
        LET r == fmtResult
            n == Len(r)
            minsPart == SubSeq(r, 1, n - 3)
            secsPart == SubSeq(r, n - 1, n)
        IN  /\ n >= 4
            /\ r[n - 2] = ":"
            /\ \A i \in 1..Len(minsPart) : IsDigit(minsPart[i])
            /\ \A i \in 1..2 : IsDigit(secsPart[i])
            /\ Len(minsPart) > 1 => minsPart[1] # "0"
            /\ ParseNat(minsPart) = fmtSeconds.tenths \div 600
            /\ ParseNat(secsPart) = (fmtSeconds.tenths % 600) \div 10
            /\ ParseNat(secsPart) \in 0..59
            /\ fmtSeconds.tenths = 0 => r = <<"0", ":", "0", "0">>
            /\ fmtSeconds.tenths = 300 => r = <<"0", ":", "3", "0">>
            /\ fmtSeconds.tenths = 900 => r = <<"1", ":", "3", "0">>
            /\ fmtSeconds.tenths = 36610 => r = <<"6", "1", ":", "0", "1">>

\* formatTime(3661) has returned '61:01'
C26_Witness ==
    /\ lastOp.kind = "formatTime"
    /\ fmtSeconds = Num(36610)
    /\ fmtResult = <<"6", "1", ":", "0", "1">>

\* C27: for NaN, positive or negative Infinity, and every negative number,
\* the result is exactly '0:00' and no error is thrown.
C27_NotANonNegativeNumberGivesZero ==
    (fmtResult # NoResult
        /\ (fmtSeconds.kind \in {"nan", "inf", "-inf"} \/ fmtSeconds.tenths < 0)) =>
        /\ fmtResult = <<"0", ":", "0", "0">>
        /\ lastOp.thrown = "none"

\* formatTime(Infinity) has returned '0:00'
C27_Witness ==
    /\ lastOp = [kind |-> "formatTime", a |-> "none", thrown |-> "none"]
    /\ fmtSeconds = PosInfinity
    /\ fmtResult = <<"0", ":", "0", "0">>

-----------------------------------------------------------------------------
(* AnimatedGallery *)

\* the id of a movie: one written in the source ('m1'..'m4') or one returned
\* by crypto.randomUUID()
FixedId(n) == [kind |-> "m", n |-> n]
Uuid_collide(n) == FixedId(n)
Uuid(n) == [kind |-> "uuid", n |-> n]

\* titles are sequences of characters
DieHard ==
    <<"D", "i", "e", " ", "H", "a", "r", "d">>
Terminator2 ==
    <<"T", "e", "r", "m", "i", "n", "a", "t", "o", "r", " ", "2", ":", " ",
      "J", "u", "d", "g", "m", "e", "n", "t", " ", "D", "a", "y">>
TheMatrix ==
    <<"T", "h", "e", " ", "M", "a", "t", "r", "i", "x">>
LethalWeapon ==
    <<"L", "e", "t", "h", "a", "l", " ", "W", "e", "a", "p", "o", "n">>

\* the initial value of `movies`
InitialMovies ==
    << [id |-> FixedId(1), title |-> DieHard, year |-> 1988, genre |-> "Action"],
       [id |-> FixedId(2), title |-> Terminator2, year |-> 1991,
        genre |-> "Sci-Fi Action"],
       [id |-> FixedId(3), title |-> TheMatrix, year |-> 1999,
        genre |-> "Sci-Fi Action"],
       [id |-> FixedId(4), title |-> LethalWeapon, year |-> 1987,
        genre |-> "Action"] >>

\* what the user types into the title input
TitleInputs ==
    { << >>, <<" ", "x", " ">>, <<" ", "U", "p", " ">> }

\* new Date().getFullYear()
CurrentYear == 2026

\* the ids a caller passes to move and remove: those of the list and one that
\* is not in it
IdInputs == {movies[i].id : i \in 1..Len(movies)} \cup {FixedId(9)}

RECURSIVE trimStart(_)
trimStart(str) ==
    IF str # << >> /\ Head(str) = " " THEN trimStart(Tail(str)) ELSE str

RECURSIVE trimEnd(_)
trimEnd(str) ==
    IF str # << >> /\ str[Len(str)] = " "
    THEN trimEnd(SubSeq(str, 1, Len(str) - 1)) ELSE str

trim_none(str) == str

\* String.prototype.trim()
trim(str) == trimEnd(trimStart(str))

\* movies.findIndex((m) => m.id === id), counted from 0; -1 when absent
findIndex(list, id) ==
    IF \E i \in 1..Len(list) : list[i].id = id
    THEN (CHOOSE i \in 1..Len(list) :
            list[i].id = id /\ \A j \in 1..(i - 1) : list[j].id # id) - 1
    ELSE 0 - 1

Swap_copy(list, i, j) ==
    [k \in 1..Len(list) |-> IF k = i + 1 THEN list[j + 1] ELSE list[k]]

\* the list with the elements at 0-based positions i and j exchanged
Swap(list, i, j) ==
    [k \in 1..Len(list) |->
        IF k = i + 1 THEN list[j + 1] ELSE IF k = j + 1 THEN list[i + 1] ELSE list[k]]

\* the letters, for the order of titles
LowerCase == <<"a", "b", "c", "d", "e", "f", "g", "h", "i", "j", "k", "l", "m",
               "n", "o", "p", "q", "r", "s", "t", "u", "v", "w", "x", "y", "z">>
UpperCase == <<"A", "B", "C", "D", "E", "F", "G", "H", "I", "J", "K", "L", "M",
               "N", "O", "P", "Q", "R", "S", "T", "U", "V", "W", "X", "Y", "Z">>

\* the rank of a character in the collation: space, punctuation, digits, then
\* the letters without regard to case
Rank(c) ==
    IF c = " " THEN 1
    ELSE IF c = ":" \/ c = "-" THEN 2
    ELSE IF IsDigit(c) THEN 3 + DigitValue(c)
    ELSE IF \E i \in 1..26 : LowerCase[i] = c
         THEN 20 + (CHOOSE i \in 1..26 : LowerCase[i] = c)
    ELSE IF \E i \in 1..26 : UpperCase[i] = c
         THEN 20 + (CHOOSE i \in 1..26 : UpperCase[i] = c)
    ELSE 50

IsUpper(c) == \E i \in 1..26 : UpperCase[i] = c

RECURSIVE ComparePrimary(_, _)
ComparePrimary(x, y) ==
    IF x = << >> /\ y = << >> THEN 0
    ELSE IF x = << >> THEN 0 - 1
    ELSE IF y = << >> THEN 1
    ELSE IF Rank(Head(x)) < Rank(Head(y)) THEN 0 - 1
    ELSE IF Rank(Head(x)) > Rank(Head(y)) THEN 1
    ELSE ComparePrimary(Tail(x), Tail(y))

RECURSIVE CompareCase(_, _)
CompareCase(x, y) ==
    IF x = << >> \/ y = << >> THEN 0
    ELSE IF ~IsUpper(Head(x)) /\ IsUpper(Head(y)) THEN 0 - 1
    ELSE IF IsUpper(Head(x)) /\ ~IsUpper(Head(y)) THEN 1
    ELSE CompareCase(Tail(x), Tail(y))

\* a.localeCompare(b): below 0, 0 or above 0; letters compare without regard
\* to case first, and a lower-case letter goes before its upper-case one
localeCompare(x, y) ==
    IF ComparePrimary(x, y) # 0 THEN ComparePrimary(x, y) ELSE CompareCase(x, y)

\* the comparison functions given to sort
ByTitle(a, b) == localeCompare(a.title, b.title)
ByYear(a, b) == a.year - b.year
Compare(key, a, b) == IF key = "title" THEN ByTitle(a, b) ELSE ByYear(a, b)

RECURSIVE InsertSorted(_, _, _)
\* m put into the sorted list after every element that does not compare
\* above it
InsertSorted(list, m, key) ==
    IF list = << >> THEN <<m>>
    ELSE IF Compare(key, Head(list), m) > 0 THEN <<m>> \o list
    ELSE <<Head(list)>> \o InsertSorted(Tail(list), m, key)

RECURSIVE SortBy(_, _)
\* Array.prototype.sort(cmp) of a copy: a stable sort
SortBy(list, key) ==
    IF list = << >> THEN << >>
    ELSE InsertSorted(SortBy(SubSeq(list, 1, Len(list) - 1), key),
                      list[Len(list)], key)

Shuffles_any(n) == [1..n -> 1..n]

\* the rearrangements of the positions of a list of length n
Shuffles(n) == Permutations(1..n)

\* what no gallery operation touches
GalFrame == UNCHANGED <<coVars, lpVars, tipVars, fmtVars>>

\* bind:value={newTitle}: the user types a title
TypeTitle(t) ==
    /\ newTitle # t
    /\ newTitle' = t
    /\ lastOp' = [kind |-> "type", a |-> "gallery", thrown |-> "none"]
    /\ UNCHANGED <<movies, uuids>>
    /\ GalFrame

\* the longest list looked at: the initial one and one more movie
MaxMovies == Len(InitialMovies) + 1

\* addMovie()
addMovie ==
    /\ (uuids < MaxAdds /\ Len(movies) < MaxMovies) \/ Len(trim(newTitle)) < 2
    /\ IF Len(trim(newTitle)) < 2
       THEN UNCHANGED <<movies, newTitle, uuids>>
       ELSE /\ movies' = << [id |-> Uuid(uuids + 1), title |-> trim(newTitle),
                             year |-> CurrentYear, genre |-> "Drama"] >> \o movies
            /\ newTitle' = << >>
            /\ uuids' = uuids + 1
    /\ lastOp' = [kind |-> "addMovie", a |-> "gallery", thrown |-> "none"]
    /\ GalFrame

\* move(id, direction)
move(id, direction) ==
    /\ LET i == findIndex(movies, id)
           j == i + direction
       IN  IF i < 0 \/ j < 0 \/ j >= Len(movies)
           THEN UNCHANGED movies
           ELSE movies' = Swap(movies, i, j)
    /\ lastOp' = [kind |-> "move", a |-> "gallery", thrown |-> "none"]
    /\ UNCHANGED <<newTitle, uuids>>
    /\ GalFrame

remove_splice(id) ==
    /\ LET i == findIndex(movies, id)
           at == IF i < 0 THEN Len(movies) ELSE i + 1
       IN  movies' = SubSeq(movies, 1, at - 1) \o SubSeq(movies, at + 1, Len(movies))
    /\ lastOp' = [kind |-> "remove", a |-> "gallery", thrown |-> "none"]
    /\ UNCHANGED <<newTitle, uuids>>
    /\ GalFrame

\* remove(id)
remove(id) ==
    /\ movies' = SelectSeq(movies, LAMBDA m : m.id # id)
    /\ lastOp' = [kind |-> "remove", a |-> "gallery", thrown |-> "none"]
    /\ UNCHANGED <<newTitle, uuids>>
    /\ GalFrame

\* shuffle(): Math.random() decides the rearrangement
shuffle ==
    /\ \E f \in Shuffles(Len(movies)) :
            movies' = [k \in 1..Len(movies) |-> movies[f[k]]]
    /\ lastOp' = [kind |-> "shuffle", a |-> "gallery", thrown |-> "none"]
    /\ UNCHANGED <<newTitle, uuids>>
    /\ GalFrame

\* sortByTitle()
sortByTitle ==
    /\ movies' = SortBy(movies, "title")
    /\ lastOp' = [kind |-> "sortByTitle", a |-> "gallery", thrown |-> "none"]
    /\ UNCHANGED <<newTitle, uuids>>
    /\ GalFrame

\* sortByYear()
sortByYear ==
    /\ movies' = SortBy(movies, "year")
    /\ lastOp' = [kind |-> "sortByYear", a |-> "gallery", thrown |-> "none"]
    /\ UNCHANGED <<newTitle, uuids>>
    /\ GalFrame

GalNext ==
    \/ \E t \in TitleInputs : TypeTitle(t)
    \/ addMovie
    \/ \E id \in IdInputs, direction \in {0 - 1, 1} : move(id, direction)
    \/ \E id \in IdInputs : remove(id)
    \/ shuffle
    \/ sortByTitle
    \/ sortByYear

-----------------------------------------------------------------------------
(* Properties of AnimatedGallery *)

NebulaHeist ==
    <<"N", "e", "b", "u", "l", "a", " ", "H", "e", "i", "s", "t">>
GlassHarbor ==
    <<"G", "l", "a", "s", "s", " ", "H", "a", "r", "b", "o", "r">>

\* the titles of the list
Titles == {movies[i].title : i \in 1..Len(movies)}

\* C28: in its initial state, before any operation, the movie list contains a
\* movie titled 'Nebula Heist' and a movie titled 'Glass Harbor'.
C28_InitialMoviesRendered ==
    lastOp.kind = "init" => (NebulaHeist \in Titles /\ GlassHarbor \in Titles)

\* the ids of the list, in its order
Ids(list) == [k \in 1..Len(list) |-> list[k].id]

\* the positions of the list that hold the movie with the given id
PositionsOf(list, id) == {k \in 1..Len(list) : list[k].id = id}

\* the movies of the list
Members(list) == {list[k] : k \in 1..Len(list)}

\* both lists have the same length and hold the same movies
SameMovies(x, y) == Len(x) = Len(y) /\ Members(x) = Members(y)

\* C34: move(id, direction): when the movie with that id is at index i and
\* i+direction is a valid index, the movies at i and i+direction are swapped
\* and every other position is unchanged; when the id is absent or
\* i+direction is out of bounds the list is unchanged.
C34_MoveSwapsNeighbours ==
    [][lastOp'.kind = "move" =>
       \A id \in IdInputs, direction \in {0 - 1, 1} :
        move(id, direction) =>
            /\ Len(movies') = Len(movies)
            /\ PositionsOf(movies, id) = {} => movies' = movies
            /\ \A i \in PositionsOf(movies, id) :
                  IF i + direction \in 1..Len(movies)
                  THEN /\ movies'[i] = movies[i + direction]
                       /\ movies'[i + direction] = movies[i]
                       /\ \A k \in 1..Len(movies) \ {i, i + direction} :
                              movies'[k] = movies[k]
                  ELSE movies' = movies
      ]_vars

\* 'Terminator 2' was moved up from the second place of the initial list
C34_Witness ==
    /\ lastOp = [kind |-> "move", a |-> "gallery", thrown |-> "none"]
    /\ uuids = 0
    /\ Ids(movies) = <<FixedId(2), FixedId(1), FixedId(3), FixedId(4)>>
    /\ SameMovies(movies, InitialMovies)

\* C35: move, shuffle, sortByTitle and sortByYear only permute the list:
\* after any of them the list has the same length and the same set of movies
\* as before; only addMovie and remove change which movies are in the list.
C35_OnlyAddAndRemoveChangeMembers ==
    [][/\ lastOp'.kind \in {"move", "shuffle", "sortByTitle", "sortByYear"} =>
            /\ SameMovies(movies', movies)
            /\ newTitle' = newTitle
       /\ lastOp'.kind \notin {"addMovie", "remove"} =>
            Members(movies') = Members(movies)
      ]_vars

\* a shuffle has turned the initial list around
C35_Witness ==
    /\ lastOp = [kind |-> "shuffle", a |-> "gallery", thrown |-> "none"]
    /\ uuids = 0
    /\ Ids(movies) = <<FixedId(4), FixedId(3), FixedId(2), FixedId(1)>>
    /\ SameMovies(movies, InitialMovies)

\* C36: after any sequence of addMovie, move, remove, shuffle and sort
\* operations, no two movies in the list have the same id (the key of the
\* keyed each block), given that each generated id is fresh.
C36_IdsAreUnique ==
    \A i, j \in 1..Len(movies) : movies[i].id = movies[j].id => i = j

\* a movie was added, another removed, and the list sorted: the added movie
\* stands among the initial ones
C36_Witness ==
    /\ lastOp.kind \in {"sortByTitle", "sortByYear"}
    /\ uuids = 1
    /\ Len(movies) = 4
    /\ \E k \in 2..4 : movies[k].id = Uuid(1)

\* n spaces
Spaces(n) == [k \in 1..n |-> " "]

\* str is t with nothing but spaces before and after it, and t neither
\* starts nor ends with a space
TrimsTo(str, t) ==
    /\ t # << >> => (t[1] # " " /\ t[Len(t)] # " ")
    /\ \E lead, trail \in 0..Len(str) : str = Spaces(lead) \o t \o Spaces(trail)

\* C37: addMovie: when the trimmed title is shorter than 2 characters the
\* list and the input are unchanged; otherwise exactly one movie with the
\* trimmed title is inserted at index 0, the existing movies keep their
\* relative order, and the input title is reset to the empty string.
C37_AddMovieGuardsAndPrepends ==
    [][lastOp'.kind = "addMovie" =>
        \E t \in {SubSeq(newTitle, lo, hi) : lo \in 1..(Len(newTitle) + 1),
                                              hi \in 0..Len(newTitle)} :
            /\ TrimsTo(newTitle, t)
            /\ IF Len(t) < 2
               THEN movies' = movies /\ newTitle' = newTitle
               ELSE /\ Len(movies') = Len(movies) + 1
                    /\ movies'[1].title = t
                    /\ Tail(movies') = movies
                    /\ newTitle' = << >>
      ]_vars

\* ' Up ' was typed and submitted: 'Up' heads the list, the initial movies
\* follow in their order and the input is empty
C37_Witness ==
    /\ lastOp = [kind |-> "addMovie", a |-> "gallery", thrown |-> "none"]
    /\ Len(movies) = 5
    /\ movies[1].title = <<"U", "p">> /\ movies[1].id = Uuid(1)
    /\ Tail(movies) = InitialMovies
    /\ newTitle = << >>

\* C38: remove(id): the resulting list is the previous list without the
\* movie with that id, the remaining movies keep their relative order, and
\* removing an id that is not in the list leaves the list unchanged (so
\* remove is idempotent).
C38_RemoveDropsOnlyThatMovie ==
    [][lastOp'.kind = "remove" =>
       \A id \in IdInputs :
        remove(id) =>
            /\ PositionsOf(movies', id) = {}
            /\ PositionsOf(movies, id) = {} => movies' = movies
            /\ \A i \in PositionsOf(movies, id) :
                  movies' = SubSeq(movies, 1, i - 1)
                                \o SubSeq(movies, i + 1, Len(movies))
      ]_vars

\* 'Terminator 2' was removed from the initial list
C38_Witness ==
    /\ lastOp = [kind |-> "remove", a |-> "gallery", thrown |-> "none"]
    /\ uuids = 0
    /\ Ids(movies) = <<FixedId(1), FixedId(3), FixedId(4)>>
    /\ Members(movies) \subseteq Members(InitialMovies)

-----------------------------------------------------------------------------
(* Properties of tooltip *)

\* the instances created for attachment a that are not destroyed
Live(a) ==
    {id \in 1..Len(tippyInstances) :
        tippyInstances[id].owner = a /\ ~tippyInstances[id].destroyed}

\* position of the first call of the given kind in the last operation's calls
\* (0 when there is none)
FirstCall(calls, kind) ==
    IF \E i \in 1..Len(calls) : calls[i].call = kind
    THEN CHOOSE i \in 1..Len(calls) :
            /\ calls[i].call = kind
            /\ \A j \in 1..(i - 1) : calls[j].call # kind
    ELSE 0

\* C8: across attach and any sequence of update(config) calls at most one
\* tooltip instance is live; on each update the previously live instance is
\* destroyed before the new one is created, and the live instance has the
\* most recent config.
C8_OneLiveInstance ==
    [][\A a \in TipIds :
        /\ Cardinality(Live(a)') <= 1
        /\ \A id \in Live(a)' :
              /\ tippyInstances'[id].content = tipConfig'[a].content
              /\ tippyInstances'[id].placement = PlacementOf(tipConfig'[a])
        /\ (lastOp'.kind = "tooltip_update" /\ lastOp'.a = a) =>
              \A id \in Live(a) :
                  \E i \in 1..Len(tipCalls') :
                      /\ tipCalls'[i] = [call |-> "destroy", id |-> id]
                      /\ i < FirstCall(tipCalls', "tippy")
      ]_vars

\* after attach with "A" and updates with "A" and then "B": the third
\* instance is the live one and holds "B", the first two are destroyed
C8_Witness ==
    /\ lastOp = [kind |-> "tooltip_update", a |-> "tip1", thrown |-> "none"]
    /\ Len(tippyInstances) = 3
    /\ tippyInstances[2].content = "A" /\ tippyInstances[2].destroyed
    /\ tippyInstances[1].destroyed
    /\ Live("tip1") = {3}
    /\ tippyInstances[3].content = "B"
    /\ tipCalls = << [call |-> "destroy", id |-> 2], [call |-> "tippy", id |-> 3] >>

\* C9: calling the handle's destroy() destroys the current instance if one
\* exists, leaving zero live instances, and does not throw.
C9_HandleDestroyReleases ==
    \A a \in TipIds :
        (lastOp.kind = "destroy" /\ lastOp.a = a) =>
            (lastOp.thrown = "none" /\ Live(a) = {})

\* C12: calling destroy() twice does not throw and does not double-release:
\* the destroy() of each instance the controller created is invoked at most
\* once.
C12_NoDoubleRelease ==
    \A a \in TipIds :
        tipDestroys[a] = 2 =>
            /\ lastOp.a = a => lastOp.thrown = "none"
            /\ \A id \in 1..Len(tippyInstances) :
                  tippyInstances[id].owner = a =>
                      tippyInstances[id].destroyCalls <= 1

\* the last operation's call of tippy() threw
CreationFailed ==
    /\ tipCalls # << >>
    /\ tipCalls[Len(tipCalls)] = [call |-> "tippy", id |-> NoInstance]

\* C18 as stated: when tippy() throws during attach or update, nothing reaches
\* the caller and attach still returns a handle.
C18_CreationFailureContained ==
    \A a \in TipIds :
        (lastOp.kind \in {"tooltip", "tooltip_update"} /\ lastOp.a = a) =>
            (lastOp.thrown = "none" /\ tipStatus[a] = "attached")

\* C18, amended: when tippy() throws during attach or update, the exception
\* is not caught and reaches the caller; a failing attach returns no handle;
\* no instance of the attachment is live afterwards (on update the previous
\* one was destroyed before the call that threw).
C18_CreationFailurePropagates ==
    \A a \in TipIds :
        (lastOp.kind \in {"tooltip", "tooltip_update"} /\ lastOp.a = a) =>
            /\ (lastOp.thrown = "Error") <=> CreationFailed
            /\ CreationFailed =>
                  /\ Live(a) = {}
                  /\ lastOp.kind = "tooltip" =>
                        (tipStatus[a] = "failed" /\ tipInstance[a] = NoInstance)
            /\ (lastOp.kind = "tooltip" /\ ~CreationFailed) =>
                  tipStatus[a] = "attached"

\* an update whose tippy() call threw: the error reached the caller and the
\* instance made at attach is destroyed
C18_Witness ==
    /\ lastOp = [kind |-> "tooltip_update", a |-> "tip1", thrown |-> "Error"]
    /\ tipCalls = << [call |-> "destroy", id |-> 1],
                     [call |-> "tippy", id |-> NoInstance] >>
    /\ tippyInstances[1].destroyed
    /\ Live("tip1") = {}

\* C19 as stated: after a creation failure during update the reference does
\* not point to a destroyed instance, and an update never calls destroy() on
\* an instance that is already destroyed.
C19_NoStaleReference ==
    [][\A a \in TipIds :
        (lastOp'.kind = "tooltip_update" /\ lastOp'.a = a) =>
            /\ lastOp'.thrown = "Error" =>
                  \/ tipInstance'[a] = NoInstance
                  \/ ~tippyInstances'[tipInstance'[a]].destroyed
            /\ \A i \in 1..Len(tipCalls') :
                  tipCalls'[i].call = "destroy" =>
                      ~tippyInstances[tipCalls'[i].id].destroyed
      ]_vars

\* C19, amended: after a creation failure during update the reference still
\* points to the previous instance, which is destroyed; a later update calls
\* destroy() on that instance once more (the library ignores it) and, when
\* tippy() returns, leaves exactly one new live instance.
C19_StaleReferenceRetried ==
    [][\A a \in TipIds :
        (lastOp'.kind = "tooltip_update" /\ lastOp'.a = a) =>
            /\ lastOp'.thrown = "Error" =>
                  /\ tipInstance'[a] = tipInstance[a]
                  /\ tipInstance'[a] # NoInstance
                  /\ tippyInstances'[tipInstance'[a]].destroyed
                  /\ Live(a)' = {}
            /\ (tipInstance[a] # NoInstance
                    /\ tippyInstances[tipInstance[a]].destroyed) =>
                  /\ tipCalls'[1] = [call |-> "destroy", id |-> tipInstance[a]]
                  /\ tippyInstances'[tipInstance[a]].destroyCalls = 2
                  /\ lastOp'.thrown = "none" =>
                        /\ Live(a)' = {Len(tippyInstances')}
                        /\ tipInstance'[a] = Len(tippyInstances')
                        /\ Len(tippyInstances') = Len(tippyInstances) + 1
      ]_vars

\* an update failed and the next one succeeded, with no teardown in between:
\* the instance made at attach got destroy() twice, the second instance is live
C19_Witness ==
    /\ lastOp = [kind |-> "tooltip_update", a |-> "tip1", thrown |-> "none"]
    /\ tipDestroys["tip1"] = 0
    /\ Len(tippyInstances) = 2
    /\ tippyInstances[1].destroyCalls = 2
    /\ Live("tip1") = {2}

\* C20 as stated: update(config) after the attachment was destroyed calls
\* nothing of the library, creates no instance and leaves no live instance.
C20_UpdateAfterDestroyNoOp ==
    [][\A a \in TipIds :
        (lastOp'.kind = "tooltip_update" /\ lastOp'.a = a /\ tipDestroys[a] >= 1) =>
            /\ tipCalls' = << >>
            /\ tippyInstances' = tippyInstances
            /\ Live(a)' = {}
      ]_vars

\* C20, amended: update(config) after the attachment was torn down is not a
\* no-op: it runs setup, which calls destroy() on the instance the controller
\* references and then tippy(); when tippy() returns exactly one instance is
\* live, the new one, and when it throws none is.
C20_UpdateAfterDestroyRunsSetup ==
    [][\A a \in TipIds :
        (lastOp'.kind = "tooltip_update" /\ lastOp'.a = a /\ tipDestroys[a] >= 1) =>
            /\ Len(tipCalls') = 2
            /\ tipCalls'[1] = [call |-> "destroy", id |-> tipInstance[a]]
            /\ tipCalls'[2].call = "tippy"
            /\ IF lastOp'.thrown = "none"
               THEN /\ Len(tippyInstances') = Len(tippyInstances) + 1
                    /\ Live(a)' = {Len(tippyInstances')}
                    /\ tipCalls'[2].id = Len(tippyInstances')
               ELSE Live(a)' = {}
      ]_vars

\* destory() and then update("B"): the destroyed instance got destroy() again
\* and a second instance is live
C20_Witness ==
    /\ lastOp = [kind |-> "tooltip_update", a |-> "tip1", thrown |-> "none"]
    /\ tipDestroys["tip1"] = 1
    /\ tippyInstances[1].destroyCalls = 2
    /\ tipCalls = << [call |-> "destroy", id |-> 1], [call |-> "tippy", id |-> 2] >>
    /\ Live("tip1") = {2}
    /\ tippyInstances[2].content = "B"

\* C21: attach creates exactly one instance bound to the element, with the
\* given content and placement, and with placement 'top' when the config
\* gives none; the same default applies to every update.
C21_OneInstanceWithGivenProps ==
    [][\A a \in TipIds :
        (lastOp'.kind \in {"tooltip", "tooltip_update"} /\ lastOp'.a = a
            /\ lastOp'.thrown = "none") =>
            LET id == Len(tippyInstances')
                p == tipConfig'[a]
            IN  /\ id = Len(tippyInstances) + 1
                /\ tipInstance'[a] = id
                /\ tippyInstances'[id].owner = a
                /\ ~tippyInstances'[id].destroyed
                /\ tippyInstances'[id].content = p.content
                /\ tippyInstances'[id].placement =
                        (IF p.hasPlacement THEN p.placement ELSE "top")
                /\ lastOp'.kind = "tooltip" =>
                        tipCalls' = << [call |-> "tippy", id |-> id] >>
      ]_vars

\* attach with placement 'bottom', then an update that gives no placement:
\* the new instance is placed at 'top'
C21_Witness ==
    /\ lastOp = [kind |-> "tooltip_update", a |-> "tip1", thrown |-> "none"]
    /\ Len(tippyInstances) = 2
    /\ tippyInstances[1].placement = "bottom"
    /\ ~tipConfig["tip1"].hasPlacement
    /\ tippyInstances[2].placement = "top"
    /\ tippyInstances[2].content = tipConfig["tip1"].content
    /\ tipInstance["tip1"] = 2

-----------------------------------------------------------------------------
(* Properties of clickOutside *)

RECURSIVE AncestorsOrSelf(_)
AncestorsOrSelf(n) ==
    IF n = "window" THEN {"window"} ELSE {n} \cup AncestorsOrSelf(Parent(n))

\* attachment a dispatched a 'clickoutside' event for the last pointerdown
NotifiedBy(a) == \E i \in 1..Len(coDispatched) : coDispatched[i].by = a

\* the number of document-level listeners whose callback belongs to a
ListenersOf(a) ==
    Cardinality({i \in 1..Len(docListeners) : docListeners[i].callback = a})

\* C1: for every attached, not yet destroyed element E and every pointerdown,
\* a 'clickoutside' notification is dispatched iff the event's propagation
\* path does not contain E.
C1_OutsideIffNotInPath ==
    [][nEvents' # nEvents =>
        \A a \in CoIds : coStatus[a] = "attached" =>
            (NotifiedBy(a)' <=>
                coNode[a] \notin AncestorsOrSelf(coLastEvent'.target))]_vars

\* a pointerdown that one attachment reports as outside while a second
\* attachment, whose element is an ancestor of the target, stays silent
C1_Witness ==
    \E a, b \in CoIds :
        /\ lastOp.kind = "pointerdown"
        /\ coStatus[a] = "attached" /\ coStatus[b] = "attached"
        /\ NotifiedBy(a) /\ ~NotifiedBy(b)
        /\ coLastEvent.target # coNode[b]
        /\ coNode[b] \in AncestorsOrSelf(coLastEvent.target)

\* C2: after destroy() the attachment has no document-level pointerdown
\* listener left, and no later pointerdown produces a notification from it.
C2_DestroyedIsSilent ==
    [][\A a \in CoIds :
        /\ coStatus'[a] = "destroyed" => ListenersOf(a)' = 0
        /\ (coStatus[a] = "destroyed" /\ nEvents' # nEvents) => ~NotifiedBy(a)'
      ]_vars

\* an outside pointerdown dispatched after a was destroyed, reported by the
\* other, still attached, attachment
C2_Witness ==
    \E a, b \in CoIds :
        /\ lastOp.kind = "pointerdown"
        /\ coStatus[a] = "destroyed" /\ coStatus[b] = "attached"
        /\ coNode[a] \notin AncestorsOrSelf(coLastEvent.target)
        /\ NotifiedBy(b)

\* C13: the document listener runs in the capture phase: for a pointerdown
\* whose path does not contain E the notification fires even when an element
\* on the path stops the propagation in the bubble phase, and it fires before
\* any bubble-phase handler of that event runs.
C13_CaptureBeforeBubble ==
    [][nEvents' # nEvents =>
        \A a \in CoIds :
            (coStatus[a] = "attached"
                /\ coNode[a] \notin AncestorsOrSelf(coLastEvent'.target)) =>
                /\ NotifiedBy(a)'
                /\ \E i \in 1..Len(coTrace') :
                      /\ coTrace'[i].by = a /\ coTrace'[i].phase = "capture"
                      /\ \A j \in 1..Len(coTrace') :
                            coTrace'[j].phase = "bubble" => i < j
      ]_vars

\* a pointerdown on btn whose propagation panel stops while bubbling, reported
\* as outside by the attachment on menu
C13_Witness ==
    \E a \in CoIds :
        /\ lastOp.kind = "pointerdown"
        /\ coLastEvent.target = "btn" /\ coLastEvent.stopAt = "panel"
        /\ coStatus[a] = "attached" /\ coNode[a] = "menu"
        /\ NotifiedBy(a)
        /\ coTrace[Len(coTrace)] = [phase |-> "bubble", at |-> "panel", by |-> "page"]

\* C10: a second destroy() does not throw, leaves the attachment's listener
\* count at zero and removes no listener of another attachment.
C10_SecondDestroyNoOp ==
    [][\A a \in CoIds :
        (lastOp'.kind = "clickOutside_destroy" /\ lastOp'.a = a
            /\ coDestroys[a] >= 1) =>
            /\ lastOp'.thrown = "none"
            /\ ListenersOf(a) = 0 /\ ListenersOf(a)' = 0
            /\ docListeners' = docListeners
      ]_vars

\* destroy() was called twice on a while another attachment is registered
C10_Witness ==
    \E a, b \in CoIds :
        /\ coDestroys[a] = 2
        /\ lastOp = [kind |-> "clickOutside_destroy", a |-> a, thrown |-> "none"]
        /\ coStatus[b] = "attached" /\ ListenersOf(b) = 1

\* the document's capture-phase pointerdown listeners
CaptureListeners ==
    {i \in 1..Len(docListeners) :
        docListeners[i].type = "pointerdown" /\ docListeners[i].capture}

\* the attachments that are attached and not destroyed
LiveAttachments == {a \in CoIds : coStatus[a] = "attached"}

\* the 'clickoutside' events attachment a dispatched for the last pointerdown
EventsBy(a) == {i \in 1..Len(coDispatched) : coDispatched[i].by = a}

\* C22: with several attachments, the number of document-level capture
\* pointerdown listeners equals the number of attached, not destroyed
\* attachments; destroying one removes only its own listener, and every other
\* live attachment keeps notifying on outside pointerdowns.
C22_OneListenerPerLiveAttachment ==
    [][/\ Cardinality(CaptureListeners') = Cardinality(LiveAttachments')
       /\ \A a \in LiveAttachments' : ListenersOf(a)' = 1
       /\ \A a \in CoIds :
            (lastOp'.kind = "clickOutside_destroy" /\ lastOp'.a = a) =>
                /\ docListeners' =
                      SelectSeq(docListeners, LAMBDA l : l.callback # a)
                /\ \A b \in CoIds \ {a} : ListenersOf(b)' = ListenersOf(b)
       /\ nEvents' # nEvents =>
            \A b \in LiveAttachments :
                (\E a \in CoIds : coStatus[a] = "destroyed") =>
                    (coNode[b] \notin AncestorsOrSelf(coLastEvent'.target)
                        => NotifiedBy(b)')
      ]_vars

\* both attachments were attached, the one registered first was destroyed, and
\* the other one reported the next outside pointerdown
C22_Witness ==
    /\ lastOp.kind = "pointerdown"
    /\ coStatus["co1"] = "destroyed" /\ coStatus["co2"] = "attached"
    /\ docListeners = << CoListener("co2") >>
    /\ coNode["co1"] = coNode["co2"]
    /\ NotifiedBy("co2") /\ ~NotifiedBy("co1")

\* C23: each pointerdown whose path does not contain E causes exactly one
\* 'clickoutside' event per live attachment, dispatched on the attached
\* element itself, whose detail.originalEvent is the triggering pointerdown.
C23_OneEventOnElementWithOriginal ==
    [][nEvents' # nEvents =>
        /\ \A a \in CoIds :
              (coStatus[a] = "attached"
                  /\ ~includes(composedPath(coLastEvent'.target), coNode[a])) =>
                  /\ Cardinality(EventsBy(a)') = 1
                  /\ \A i \in EventsBy(a)' :
                        /\ coDispatched'[i].type = "clickoutside"
                        /\ coDispatched'[i].on = coNode[a]
                        /\ coDispatched'[i].originalEvent = coLastEvent'
        /\ coLastEvent'.id = nEvents'
        /\ \A i \in 1..Len(coDispatched') :
              coDispatched'[i].by \in LiveAttachments
      ]_vars

\* the second pointerdown, on btn, with attachments on menu and on item: each
\* dispatched one event on its own element, carrying that pointerdown
C23_Witness ==
    /\ lastOp.kind = "pointerdown"
    /\ coLastEvent.id = 2 /\ coLastEvent.target = "btn"
    /\ coNode["co1"] = "menu" /\ coNode["co2"] = "item"
    /\ Len(coDispatched) = 2
    /\ \E i, j \in 1..2 :
          /\ coDispatched[i].by = "co1" /\ coDispatched[i].on = "menu"
          /\ coDispatched[j].by = "co2" /\ coDispatched[j].on = "item"
          /\ coDispatched[i].originalEvent = coLastEvent
          /\ coDispatched[j].originalEvent = coLastEvent

-----------------------------------------------------------------------------
(* Properties of longpress *)

PointerEnds == {"pointerup", "pointercancel", "pointerleave"}

\* the timeouts pending for attachment a
PendingOf(a) == {t \in timers : t.owner = a}

\* the 'longpress' events dispatched for the press that set timeout id
NotesFor(id) == {i \in 1..Len(lpLog) : lpLog[i].timer = id}

\* the 'longpress' events dispatched on the element of a
NotesBy(a) == {i \in 1..Len(lpLog) : lpLog[i].by = a}

\* every 'longpress' event dispatched in this step is the first one of the
\* press held on its element and carries the pointer type of that press
OnlyHeldPressNotifies ==
    Len(lpLog') > Len(lpLog) =>
        LET n == lpLog'[Len(lpLog')] IN
            /\ Len(lpLog') = Len(lpLog) + 1
            /\ lpHeld[n.by].press = n.timer
            /\ lpHeld[n.by].pointerType = n.pointerType
            /\ NotesFor(n.timer) = {}

\* C3: a pointerdown on the attached element that is followed by no
\* pointerup, pointercancel, pointerleave or further pointerdown eventually
\* produces exactly one 'longpress' notification for that press, with the
\* pointerType of that pointerdown, and no second one while it stays held.
C3_HeldPressNotifiesOnce ==
    /\ [][OnlyHeldPressNotifies]_vars
    /\ \A id \in 1..MaxTimers :
          (lpHeld["lp1"].press = id)
              ~> (lpHeld["lp1"].press # id \/ Cardinality(NotesFor(id)) = 1)

\* the timeout of a press held with a touch pointer has fired, after an
\* earlier press was given up
C3_Witness ==
    /\ lastOp = [kind |-> "timeout", a |-> "lp1", thrown |-> "none"]
    /\ lpHeld["lp1"].press = 2 /\ lpHeld["lp1"].pointerType = "touch"
    /\ Len(lpLog) = 1
    /\ lpLog[1].timer = 2 /\ lpLog[1].pointerType = "touch"

\* C4: a pointerup, pointercancel or pointerleave that arrives before the
\* threshold elapses cancels the pending timer and resets userSelect to '',
\* and the press it ends produces no 'longpress' notification.
C4_InterruptCancels ==
    [][/\ \A a \in LpIds :
            (lastOp'.kind \in PointerEnds /\ lastOp'.a = a
                /\ lpStatus[a] # "unattached") =>
                /\ PendingOf(a)' = {}
                /\ lpTimer'[a] = NoTimer
                /\ lpUserSelect'[a] = ""
       /\ Len(lpLog') > Len(lpLog) =>
            lpHeld[lpLog'[Len(lpLog')].by].press = lpLog'[Len(lpLog')].timer
      ]_vars

\* a press was ended by pointerup while its timeout was still pending, and
\* nothing was dispatched
C4_Witness ==
    /\ lastOp = [kind |-> "pointerup", a |-> "lp1", thrown |-> "none"]
    /\ lpStatus["lp1"] = "attached"
    /\ nextTimerId = 2
    /\ timers = {} /\ lpTimer["lp1"] = NoTimer /\ lpUserSelect["lp1"] = ""
    /\ lpLog = << >>

\* C5: destroy() removes the four listeners registered at attach, so that
\* after destroy() a pointerdown on the element starts no timer and does not
\* change userSelect.
C5_DestroyRemovesListeners ==
    [][\A a \in LpIds :
        /\ lpStatus'[a] = "destroyed" => lpListeners'[a] = << >>
        /\ (lpStatus[a] = "destroyed" /\ lastOp'.kind = "pointerdown"
                /\ lastOp'.a = a) =>
              /\ timers' = timers
              /\ lpUserSelect'[a] = lpUserSelect[a]
      ]_vars

\* C6: destroy() called while a press is in progress cancels the pending
\* timer, and no 'longpress' notification is dispatched after it returns.
C6_DestroyCancelsTimer ==
    [][\A a \in LpIds :
        /\ (lastOp'.kind = "longpress_destroy" /\ lastOp'.a = a) =>
              (PendingOf(a)' = {} /\ lpTimer'[a] = NoTimer)
        /\ lpStatus[a] = "destroyed" => NotesBy(a)' = NotesBy(a)
      ]_vars

C11_SecondDestroySameCleanState ==
    [][\A a \in LpIds :
        (lastOp'.kind = "longpress_destroy" /\ lastOp'.a = a
            /\ lpDestroys[a] >= 1) =>
            /\ lastOp'.thrown = "none"
            /\ lpListeners' = lpListeners /\ timers' = timers
            /\ lpTimer' = lpTimer /\ lpUserSelect' = lpUserSelect
            /\ lpListeners'[a] = << >>
            /\ PendingOf(a)' = {} /\ lpTimer'[a] = NoTimer
      ]_vars

\* the time the window waits before it runs a callback set with delay ms
WaitOf(ms) == IF ms < 0 THEN 0 ELSE ms

\* the threshold the params p ask for
AskedMs(p) == IF p.hasMs THEN p.ms ELSE 600

\* C14: after pointerdown, pointerup before the threshold, and a second
\* pointerdown, the timer of the second press starts from zero: the
\* notification fires one full threshold after the second pointerdown, never
\* at a time measured from the first.
C14_FiresFullThresholdAfterLatestDown ==
    [][Len(lpLog') > Len(lpLog) =>
        LET n == lpLog'[Len(lpLog')]
            h == lpHeld[n.by]
        IN  /\ h.press = n.timer
            /\ h.since = WaitOf(h.ms)
      ]_vars

\* a press was given up by pointerup after 300 ms; the press after it fired
\* 600 ms after its own pointerdown
C14_Witness ==
    /\ lastOp = [kind |-> "timeout", a |-> "lp1", thrown |-> "none"]
    /\ lpHeld["lp1"].press = 2
    /\ lpHeld["lp1"].prevBy = "end" /\ lpHeld["lp1"].prev = 300
    /\ lpHeld["lp1"].ms = 600 /\ lpHeld["lp1"].since = 600
    /\ Len(lpLog) = 1 /\ lpLog[1].timer = 2

\* C15: a pointerdown that arrives while a press is in progress cancels the
\* running timer and starts a fresh one; the earlier timer never fires, so
\* exactly one notification results, for the latest pointerdown.
C15_ReentrantDownRestarts ==
    [][/\ \A a \in LpIds :
            (lastOp'.kind = "pointerdown" /\ lastOp'.a = a
                /\ lpStatus[a] # "unattached" /\ PendingOf(a) # {}) =>
                /\ PendingOf(a)' \cap PendingOf(a) = {}
                /\ Cardinality(PendingOf(a)') = 1
                /\ \A t \in PendingOf(a)' :
                      /\ t.id = lpTimer'[a] /\ t.id = lpHeld'[a].press
                      /\ t.remaining = WaitOf(lpMs[a])
       /\ \A a \in LpIds : Cardinality(PendingOf(a)') <= 1
       /\ Len(lpLog') > Len(lpLog) =>
            /\ Len(lpLog') = Len(lpLog) + 1
            /\ NotesFor(lpLog'[Len(lpLog')].timer) = {}
            /\ lpLog'[Len(lpLog')].timer >= lpHeld[lpLog'[Len(lpLog')].by].press
      ]_vars

\* a pointerdown arrived 300 ms into a press; only the timer of the second
\* pointerdown fired, 600 ms after it
C15_Witness ==
    /\ lastOp = [kind |-> "timeout", a |-> "lp1", thrown |-> "none"]
    /\ lpHeld["lp1"].press = 2
    /\ lpHeld["lp1"].prevBy = "down" /\ lpHeld["lp1"].prev = 300
    /\ lpHeld["lp1"].since = 600
    /\ Len(lpLog) = 1 /\ lpLog[1].timer = 2

\* C16: update(newConfig) changes the threshold used by presses that start
\* after the call; a timer already running still fires at the threshold in
\* force at its pointerdown, and update neither cancels nor restarts it.
C16_UpdateOnlyAffectsLaterPresses ==
    [][\A a \in LpIds :
        /\ (lastOp'.kind = "longpress_update" /\ lastOp'.a = a) =>
              /\ timers' = timers /\ lpTimer' = lpTimer /\ lpHeld' = lpHeld
              /\ lpMs'[a] = AskedMs(lpConfig'[a])
        /\ (lastOp'.kind = "pointerdown" /\ lastOp'.a = a
                /\ lpStatus[a] # "unattached") =>
              \E t \in PendingOf(a)' :
                  t.id = lpTimer'[a] /\ t.delay = AskedMs(lpConfig[a])
        /\ \A t \in PendingOf(a)' :
              t.id = lpHeld'[a].press =>
                  /\ t.delay = lpHeld'[a].ms
                  /\ t.remaining + lpHeld'[a].since = WaitOf(t.delay)
      ]_vars

\* the threshold was changed from 600 to 300 during a press, and the press
\* fired 600 ms after its pointerdown
C16_Witness ==
    /\ lastOp = [kind |-> "timeout", a |-> "lp1", thrown |-> "none"]
    /\ lpMs["lp1"] = 300
    /\ lpHeld["lp1"].ms = 600 /\ lpHeld["lp1"].since = 600
    /\ Len(lpLog) = 1 /\ lpLog[1].timer = lpHeld["lp1"].press

\* C17 as stated: the delay passed to the timer of every press is at least 1.
C17_DelayAtLeastOne ==
    \A t \in timers : t.delay >= 1

\* C17, amended: a threshold of zero or below is not clamped; it is kept in
\* `ms` and passed unchanged to setTimeout as the delay of every press started
\* while it is in force, the window waits no time at all for such a delay, and
\* nothing is thrown.
C17_DelayIsThresholdUnclamped ==
    /\ lastOp.kind \in {"longpress", "longpress_update", "pointerdown", "timeout"}
            => lastOp.thrown = "none"
    /\ \A a \in LpIds :
          lpStatus[a] # "unattached" => lpMs[a] = AskedMs(lpConfig[a])
    /\ \A t \in timers :
          /\ t.id = lpHeld[t.owner].press => t.delay = lpHeld[t.owner].ms
          /\ t.delay <= 0 => t.remaining = 0
    /\ \A a \in LpIds :
          (lastOp.kind = "pointerdown" /\ lastOp.a = a /\ lpStatus[a] # "unattached")
              => /\ lpHeld[a].ms = lpMs[a]
                 /\ \E t \in timers : t.id = lpHeld[a].press /\ t.delay = lpMs[a]

\* a press started under a threshold of -1 fired without any time passing
C17_Witness ==
    /\ lastOp = [kind |-> "timeout", a |-> "lp1", thrown |-> "none"]
    /\ lpConfig["lp1"] = [hasMs |-> TRUE, ms |-> -1]
    /\ lpHeld["lp1"].ms = -1 /\ lpHeld["lp1"].since = 0
    /\ Len(lpLog) = 1 /\ lpLog[1].timer = lpHeld["lp1"].press

\* C24: the threshold is 600 ms when attach is given no config or a config
\* without ms, and update with a config without ms sets the threshold back to
\* 600 ms rather than keeping the previous value.
C24_DefaultThreshold ==
    [][\A a \in LpIds :
        /\ (lastOp'.kind \in {"longpress", "longpress_update"} /\ lastOp'.a = a
                /\ ~lpConfig'[a].hasMs) => lpMs'[a] = 600
        /\ (lastOp'.kind = "pointerdown" /\ lastOp'.a = a
                /\ lpStatus[a] # "unattached" /\ ~lpConfig[a].hasMs) =>
              \A t \in PendingOf(a)' : t.delay = 600 /\ t.remaining = 600
      ]_vars

\* a press was started under a threshold of 300; an update without ms then put
\* the threshold at 600
C24_Witness ==
    /\ lastOp = [kind |-> "longpress_update", a |-> "lp1", thrown |-> "none"]
    /\ lpHeld["lp1"].press # 0 /\ lpHeld["lp1"].ms = 300
    /\ ~lpConfig["lp1"].hasMs
    /\ lpMs["lp1"] = 600

\* C29: the 'longpress' notification carries the pointerType of the
\* pointerdown that started the timer that fired; when a pointerdown of a
\* different pointer kind re-enters during a press, the notification carries
\* the kind of the latest pointerdown, never that of the superseded one.
C29_CarriesLatestPointerType ==
    [][/\ \A a \in LpIds :
            (lastOp'.kind = "pointerdown" /\ lastOp'.a = a
                /\ lpStatus[a] # "unattached") =>
                \A t \in PendingOf(a)' :
                    t.pointerType = lpHeld'[a].pointerType
       /\ \A t \in timers' :
            t.id = lpHeld'[t.owner].press =>
                t.pointerType = lpHeld'[t.owner].pointerType
       /\ Len(lpLog') > Len(lpLog) =>
            LET n == lpLog'[Len(lpLog')] IN
                /\ \E t \in timers :
                      /\ t.id = n.timer /\ t.owner = n.by
                      /\ t.pointerType = n.pointerType
                /\ n.timer = lpHeld[n.by].press
                /\ n.pointerType = lpHeld[n.by].pointerType
      ]_vars

\* a touch pointerdown re-entered a press started with the mouse; the one
\* notification carries 'touch'
C29_Witness ==
    /\ lastOp = [kind |-> "timeout", a |-> "lp1", thrown |-> "none"]
    /\ lpHeld["lp1"].prevBy = "down" /\ lpHeld["lp1"].prevType = "mouse"
    /\ lpHeld["lp1"].pointerType = "touch"
    /\ Len(lpLog) = 1 /\ lpLog[1].pointerType = "touch"
    /\ lpLog[1].timer = lpHeld["lp1"].press

\* C30: pointerup, pointercancel and pointerleave arriving in any order and
\* number, also when no press is in progress, never throw and leave the
\* attachment idle with no pending timer and userSelect = ''; a pointerdown
\* after them starts a normal press.
C30_InterruptionsAreSafe ==
    [][\A a \in LpIds :
        /\ (lastOp'.kind \in PointerEnds /\ lastOp'.a = a
                /\ lpStatus[a] # "unattached") =>
              /\ lastOp'.thrown = "none"
              /\ PendingOf(a)' = {} /\ lpTimer'[a] = NoTimer
              /\ lpUserSelect'[a] = ""
              /\ lpTimer[a] = NoTimer => timers' = timers
              /\ lpLog' = lpLog
        /\ (lastOp'.kind = "pointerdown" /\ lastOp'.a = a
                /\ lpStatus[a] # "unattached" /\ lastOp.kind \in PointerEnds) =>
              /\ lastOp'.thrown = "none"
              /\ lpUserSelect'[a] = "none"
              /\ lpTimer'[a] # NoTimer
              /\ PendingOf(a)' =
                    {[id |-> lpTimer'[a], owner |-> a,
                      pointerType |-> lpHeld'[a].pointerType,
                      delay |-> lpMs[a], remaining |-> WaitOf(lpMs[a])]}
      ]_vars

\* the timer of the only press has fired, so no press is in progress, and a
\* pointerup arrives: userSelect is back at '' and nothing is pending
C30_Witness ==
    /\ lastOp = [kind |-> "pointerup", a |-> "lp1", thrown |-> "none"]
    /\ Len(lpLog) = 1 /\ lpLog[1].timer = 1 /\ nextTimerId = 2
    /\ lpHeld["lp1"].prevBy = "end"
    /\ timers = {} /\ lpTimer["lp1"] = NoTimer
    /\ lpUserSelect["lp1"] = ""

\* the ids of the timeouts set so far
Started == 1..(nextTimerId - 1)

\* timeout id is still to run
IsPending(id) == \E t \in timers : t.id = id

\* the callback of timeout id has run
HasFired(id) == NotesFor(id) # {}

\* C31: after any sequence of pointerdown, pointerup, pointercancel,
\* pointerleave, timer expiry, update and destroy, an attachment has at most
\* one pending timer, the one its `timer` names; every timer it ever started
\* is either that pending one, cancelled, or has fired, once and for all.
C31_AtMostOnePendingTimer ==
    /\ \A a \in LpIds :
          /\ Cardinality(PendingOf(a)) <= 1
          /\ \A t \in PendingOf(a) : t.id = lpTimer[a]
          /\ lpTimer[a] # NoTimer => \E t \in PendingOf(a) : t.id = lpTimer[a]
    /\ \A t \in timers : t.id \in Started
    /\ \A s, t \in timers : s.id = t.id => s = t
    /\ \A i \in 1..Len(lpLog) : lpLog[i].timer \in Started
    /\ \A id \in Started :
          /\ Cardinality(NotesFor(id)) <= 1
          /\ ~(IsPending(id) /\ HasFired(id))

\* after destroy: the first timeout has fired, the second one is pending and
\* is the one `timer` names
C31_Witness ==
    /\ lastOp = [kind |-> "longpress_destroy", a |-> "lp1", thrown |-> "none"]
    /\ nextTimerId >= 3
    /\ HasFired(1) /\ ~IsPending(1)
    /\ IsPending(2) /\ ~HasFired(2)
    /\ lpTimer["lp1"] = 2

\* C32: in every reachable state, if the attachment has a pending timer then
\* text selection on the element is suppressed (userSelect = 'none').
C32_PendingTimerSuppressesSelection ==
    \A a \in LpIds :
        (PendingOf(a) # {} \/ lpTimer[a] # NoTimer) => lpUserSelect[a] = "none"

\* a press is pending after destroy was called during it, under a given ms, and
\* selection is still suppressed
C32_Witness ==
    /\ lastOp = [kind |-> "longpress_destroy", a |-> "lp1", thrown |-> "none"]
    /\ lpConfig["lp1"].hasMs
    /\ lpHeld["lp1"].press = 1 /\ lpHeld["lp1"].since > 0
    /\ PendingOf("lp1") # {} /\ lpTimer["lp1"] = 1
    /\ lpUserSelect["lp1"] = "none"

\* the press held on the element of a has had its notification
FiredAndHeld(a) == lpHeld[a].press # 0 /\ HasFired(lpHeld[a].press)

\* C33: when the timer fires, the timer state is cleared but text selection
\* is not restored: userSelect stays 'none' after the notification until a
\* later pointerup, pointercancel or pointerleave resets it to ''.
C33_SelectionStaysSuppressedAfterFire ==
    [][\A a \in LpIds :
        /\ (lastOp'.kind = "timeout" /\ lastOp'.a = a) =>
              /\ Len(lpLog') = Len(lpLog) + 1
              /\ lpTimer'[a] = NoTimer /\ PendingOf(a)' = {}
              /\ lpUserSelect[a] = "none" /\ lpUserSelect'[a] = "none"
              /\ FiredAndHeld(a)'
        /\ (FiredAndHeld(a) /\ ~(lastOp'.kind \in PointerEnds /\ lastOp'.a = a)) =>
              lpUserSelect'[a] = "none"
        /\ (FiredAndHeld(a) /\ lastOp'.kind \in PointerEnds /\ lastOp'.a = a) =>
              /\ lpUserSelect'[a] = ""
              /\ ~FiredAndHeld(a)'
      ]_vars

\* the timer has fired and update and destroy were called since, with no
\* pointer event: nothing is pending and selection is still suppressed
C33_Witness ==
    /\ lastOp = [kind |-> "longpress_destroy", a |-> "lp1", thrown |-> "none"]
    /\ lpConfig["lp1"].hasMs
    /\ Len(lpLog) = 1 /\ lpLog[1].timer = 1
    /\ lpHeld["lp1"].press = 1
    /\ timers = {} /\ lpTimer["lp1"] = NoTimer
    /\ lpUserSelect["lp1"] = "none"

\* the operations of the longpress handle and the events of its element
LpKinds ==
    {"longpress", "longpress_update", "longpress_destroy", "pointerdown",
     "pointerup", "pointercancel", "pointerleave", "timeout"}

\* the operations of the tooltip handle
TipKinds == {"tooltip", "tooltip_update", "tooltip_destory", "destroy"}

\* the instances tippy() created for attachment a, by id
InstancesOf(a) ==
    {[id |-> i, inst |-> tippyInstances[i]] :
        i \in {j \in 1..Len(tippyInstances) : tippyInstances[j].owner = a}}

\* C25: for two longpress attachments on two elements, and likewise two
\* tooltip attachments, any pointer event, timer expiry, update or destroy of
\* one attachment leaves the other's timer, threshold, text-selection state
\* and instance reference unchanged.
C25_AttachmentsIndependent ==
    [][/\ \A a, b \in LpIds :
            (a # b /\ lastOp'.kind \in LpKinds /\ lastOp'.a = a) =>
                /\ lpTimer'[b] = lpTimer[b]
                /\ PendingOf(b)' = PendingOf(b)
                /\ lpMs'[b] = lpMs[b]
                /\ lpUserSelect'[b] = lpUserSelect[b]
                /\ lpListeners'[b] = lpListeners[b]
       /\ \A a, b \in TipIds :
            (a # b /\ lastOp'.kind \in TipKinds /\ lastOp'.a = a) =>
                /\ tipInstance'[b] = tipInstance[b]
                /\ InstancesOf(b)' = InstancesOf(b)
      ]_vars

\* presses are held on both elements and the pointerup on the first one
\* cancelled its own timer only
C25_Witness ==
    /\ lastOp = [kind |-> "pointerup", a |-> "lp1", thrown |-> "none"]
    /\ lpTimer["lp1"] = NoTimer /\ lpUserSelect["lp1"] = ""
    /\ lpHeld["lp1"].prevBy = "end"
    /\ lpTimer["lp2"] # NoTimer /\ PendingOf("lp2") # {}
    /\ lpUserSelect["lp2"] = "none"
    /\ lpMs["lp1"] # lpMs["lp2"]

-----------------------------------------------------------------------------

\* no action is attached
InitActions ==
    /\ coStatus = [a \in CoIds |-> "unattached"]
    /\ coNode = [a \in CoIds |-> "menu"]
    /\ docListeners = << >>
    /\ nEvents = 0
    /\ coLastEvent = NoEvent
    /\ coDispatched = << >>
    /\ coTrace = << >>
    /\ coDestroys = [a \in CoIds |-> 0]
    /\ lpStatus = [a \in LpIds |-> "unattached"]
    /\ lpMs = [a \in LpIds |-> DefaultMs]
    /\ lpTimer = [a \in LpIds |-> NoTimer]
    /\ lpUserSelect = [a \in LpIds |-> ""]
    /\ lpListeners = [a \in LpIds |-> << >>]
    /\ timers = {}
    /\ nextTimerId = 1
    /\ lpHeld = [a \in LpIds |-> NoPress]
    /\ lpConfig = [a \in LpIds |-> [hasMs |-> FALSE, ms |-> 0]]
    /\ lpLog = << >>
    /\ lpDestroys = [a \in LpIds |-> 0]
    /\ tipStatus = [a \in TipIds |-> "unattached"]
    /\ tipInstance = [a \in TipIds |-> NoInstance]
    /\ tippyInstances = << >>
    /\ tipCalls = << >>
    /\ tipConfig = [a \in TipIds |-> NoParams]
    /\ tipDestroys = [a \in TipIds |-> 0]
    /\ lastOp = [kind |-> "init", a |-> "none", thrown |-> "none"]

\* the component as first rendered
InitGallery ==
    /\ movies = InitialMovies
    /\ newTitle = << >>
    /\ uuids = 0

Init ==
    /\ InitActions
    /\ fmtSeconds = Num(0)
    /\ fmtResult = NoResult
    /\ InitGallery

\* formatTime is called with any of the arguments
InitFormat ==
    /\ InitActions
    /\ fmtSeconds \in FormatInputs
    /\ fmtResult = NoResult
    /\ InitGallery

Next == CoNext \/ LpNext(LpIds) \/ TipNext(TipIds) \/ FmtNext \/ GalNext

SpecGallery == Init /\ [][GalNext]_vars

SpecFormat == InitFormat /\ [][FmtNext]_vars

Spec == Init /\ [][Next]_vars

SpecClick == Init /\ [][CoNext]_vars

\* one tooltip attachment
SpecTip == Init /\ [][TipNext({"tip1"})]_vars

\* one longpress attachment
SpecLong == Init /\ [][LpNext({"lp1"})]_vars

\* the params of the two-attachment pages
PairLongpressParams == {[hasMs |-> FALSE, ms |-> 0], [hasMs |-> TRUE, ms |-> 300]}
PairTooltipParams ==
    {[content |-> "A", hasPlacement |-> FALSE, placement |-> "top"]}

\* a page that uses one of the two actions on two of its elements
PairNext ==
    \/ /\ \A a \in TipIds : tipStatus[a] = "unattached"
       /\ LpOps(LpIds, PairLongpressParams, {"mouse"}, {"pointerup"})
    \/ /\ \A a \in LpIds : lpStatus[a] = "unattached" /\ lpHeld[a] = NoPress
       /\ TipOps(TipIds, PairTooltipParams)

SpecPair == Init /\ [][PairNext]_vars

\* the window runs a due timeout callback, and time passes
SpecLongFair ==
    /\ SpecLong
    /\ WF_vars(\E d \in Steps \cup {t.remaining : t \in timers} : Advance(d))
    /\ WF_vars(\E t \in timers : TimerCallback(t))

====
